---- MODULE Spec2Model ----
(***************************************************************************)
(* PyCAS: the normalizer (normalizer.py, normalizer_rules.py), the         *)
(* differentiation / integration rules (rules.py) and the dispatchers      *)
(* (core.py), over the raw trees parser.py builds.                         *)
(*                                                                         *)
(* A node is a record carrying a "type" field, as the Python dicts do.     *)
(* unsupported(reason) is the record without a "type" field that           *)
(* errors.py builds.  A raised Python exception is the record Raise(..);   *)
(* every operator hands a raised exception of a sub-call on unchanged,     *)
(* which is how an uncaught exception unwinds the Python call stack.       *)
(*                                                                         *)
(* Numbers are exact rationals <<numerator, denominator>> in lowest terms  *)
(* with a positive denominator: Python ints and fractions.Fraction values  *)
(* compare, multiply and print alike under this reading.  float literals   *)
(* ("0.5") and the "decimal" display mode are not modelled.                *)
(***************************************************************************)
EXTENDS Integers, Sequences, FiniteSets, TLC

VARIABLES op, src, raw, parsed, pc, ctl, stack, chained, given

vars == <<op, src, raw, parsed, pc, ctl, stack, chained, given>>

(* ------------------------------ bounds -------------------------------- *)

\* largest NUMBER literal of an input string
MaxNum == 2
\* largest exponent literal of an input string
MaxExp == 2

(* --------------------------- exact numbers ---------------------------- *)

Abs(n) == IF n < 0 THEN -n ELSE n

RECURSIVE GCD(_, _)
GCD(a, b) == IF b = 0 THEN a ELSE GCD(b, a % b)

\* fractions.Fraction(n, d), d # 0
Fraction(n, d) ==
    LET g == GCD(Abs(n), Abs(d))
        s == IF d < 0 THEN -1 ELSE 1
    IN  <<(s * n) \div g, (s * d) \div g>>

IntNum(n) == <<n, 1>>

NumMul(a, b) == Fraction(a[1] * b[1], a[2] * b[2])

\* str() of an int or of a Fraction
NumStr(a) ==
    IF a[2] = 1 THEN ToString(a[1])
    ELSE ToString(a[1]) \o "/" \o ToString(a[2])

(* ------------------------------ AST nodes ----------------------------- *)

Const(v) == [type |-> "const", value |-> v]
Var(s) == [type |-> "var", variable |-> s]
Power(b, n) == [type |-> "power", base |-> b, exp |-> n]
Mul(c, e) == [type |-> "mul", const |-> c, expr |-> e]
Prod(fs) == [type |-> "prod", factors |-> fs]
Sum(ts) == [type |-> "sum", terms |-> ts]
Func(nm, a) == [type |-> "func", name |-> nm, arg |-> a]

\* Python's None
None == [none |-> TRUE]

\* errors.py
unsupported(reason) == [error |-> TRUE, reason |-> reason]

\* a raised exception: its class and str()
Raise(cls, msg) == [exception |-> cls, message |-> msg]
IsExc(r) == "exception" \in DOMAIN r
\* expr["type"] on a dict without that key
KeyErrorType == Raise("KeyError", "'type'")
\* "error" in out
IsError(r) == "error" \in DOMAIN r
\* the dict has a "type" key
HasType(r) == "type" \in DOMAIN r
\* expr.get("type"), rendered as f"{expr_type}"
TypeOf(r) == IF HasType(r) THEN r.type ELSE "None"

\* the first raised exception among the results of a left-to-right loop
FirstExc(rs) ==
    LET bad == {i \in 1..Len(rs) : IsExc(rs[i])}
    IN  rs[CHOOSE i \in bad : \A j \in bad : i <= j]
AnyExc(rs) == \E i \in 1..Len(rs) : IsExc(rs[i])

(* ------------------------------ normalizer ---------------------------- *)

RECURSIVE normalize(_)
RECURSIVE normalize_power(_)
RECURSIVE normalize_mul(_)
RECURSIVE normalize_prod(_)
RECURSIVE normalize_sum(_)
RECURSIVE normalize_func(_)

prod_order_key(factor) ==
    CASE factor.type = "var" -> 0
      [] factor.type = "power" -> 1
      [] factor.type = "func" -> 2
      [] OTHER -> 99

\* normalize_prod without its Step 4 (line 152)
SortedByKey_Unsorted(fs) ==
    fs

\* sorted(fs, key = prod_order_key): stable
SortedByKey(fs) ==
    LET K(k) == SelectSeq(fs, LAMBDA f : prod_order_key(f) = k)
    IN  K(0) \o K(1) \o K(2) \o K(99)

\* normalize_power without the x^1 rule (lines 41-42)
normalize_power_KeepOne(expr) ==
    LET exp == expr.exp
        base == normalize(expr.base)
    IN  IF IsExc(base) THEN base
        ELSE IF exp = 0 THEN Const(IntNum(1))
        ELSE Power(base, exp)

normalize_power(expr) ==
    LET exp == expr.exp
        base == normalize(expr.base)
    IN  IF IsExc(base) THEN base
        ELSE IF exp = 0 THEN Const(IntNum(1))
        ELSE IF exp = 1 THEN base
        ELSE Power(base, exp)

\* normalize_mul without the collapse of a nested Mul (lines 66-72)
normalize_mul_NoCollapse(expr) ==
    LET constant == expr.const
        inner_expr == normalize(expr.expr)
    IN  IF constant = IntNum(0) THEN Const(IntNum(0))
        ELSE IF IsExc(inner_expr) THEN inner_expr
        ELSE IF ~HasType(inner_expr) THEN KeyErrorType
        ELSE IF inner_expr.type = "const"
             THEN Const(NumMul(inner_expr.value, constant))
        ELSE IF constant = IntNum(1) THEN inner_expr
        ELSE Mul(constant, inner_expr)

normalize_mul(expr) ==
    LET constant == expr.const
        inner_expr == normalize(expr.expr)
    IN  IF constant = IntNum(0) THEN Const(IntNum(0))
        ELSE IF IsExc(inner_expr) THEN inner_expr
        ELSE IF ~HasType(inner_expr) THEN KeyErrorType
        ELSE IF inner_expr.type = "const"
             THEN Const(NumMul(inner_expr.value, constant))
        ELSE IF inner_expr.type = "mul"
             THEN Mul(NumMul(constant, inner_expr.const), inner_expr.expr)
        ELSE IF constant = IntNum(1) THEN inner_expr
        ELSE Mul(constant, inner_expr)

\* Step 1 of normalize_prod: normalize each factor, splice nested products
\* (the list as [seq |-> ..], or the exception raised on the way)
RECURSIVE FlattenFactors(_)
FlattenFactors(fs) ==
    IF fs = <<>> THEN [seq |-> <<>>]
    ELSE LET f == normalize(Head(fs))
         IN  IF IsExc(f) THEN f
             ELSE IF ~HasType(f) THEN KeyErrorType
             ELSE LET rest == FlattenFactors(Tail(fs))
                  IN  IF IsExc(rest) THEN rest
                      ELSE IF f.type = "prod" THEN [seq |-> f.factors \o rest.seq]
                      ELSE [seq |-> <<f>> \o rest.seq]

\* Step 2 of normalize_prod: the loop over the flattened factors, which
\* returns from the middle on a zero constant or a factor of another kind
RECURSIVE AbsorbConsts(_, _, _)
AbsorbConsts(fs, product_of_const, atomic_factors) ==
    IF fs = <<>>
    THEN [ret |-> FALSE, c |-> product_of_const, atoms |-> atomic_factors]
    ELSE LET factor == Head(fs)
         IN  IF factor.type = "const"
             THEN IF factor.value = IntNum(0)
                  THEN [ret |-> TRUE, val |-> Const(IntNum(0))]
                  ELSE AbsorbConsts(Tail(fs),
                                    NumMul(product_of_const, factor.value),
                                    atomic_factors)
             ELSE IF factor.type \in {"var", "power", "func"}
             THEN AbsorbConsts(Tail(fs), product_of_const,
                               Append(atomic_factors, factor))
             ELSE [ret |-> TRUE,
                   val |-> unsupported("Unsupported Factor Type in Product: "
                                       \o factor.type)]

IsVarFactor(f) == f.type = "var"
IsVarPower(f) == f.type = "power" /\ f.base.type = "var"
\* factor["base"]["type"] raises on a base that is no node
BadPowerBase(f) == f.type = "power" /\ ~HasType(f.base)

\* Step 2.5: the first variable seen among the atomic factors
CanonicalVar(atoms) ==
    LET hit == {i \in 1..Len(atoms) : IsVarFactor(atoms[i]) \/ IsVarPower(atoms[i])}
    IN  IF hit = {} THEN None
        ELSE LET i == CHOOSE k \in hit : \A j \in hit : k <= j
             IN  IF IsVarFactor(atoms[i]) THEN atoms[i] ELSE atoms[i].base

\* Step 3: the summed exponent of the variable
RECURSIVE PowerSum(_)
PowerSum(atoms) ==
    IF atoms = <<>> THEN 0
    ELSE (IF IsVarFactor(Head(atoms)) THEN 1
          ELSE IF IsVarPower(Head(atoms)) THEN Head(atoms).exp
          ELSE 0) + PowerSum(Tail(atoms))

\* Steps 3 to 5 of normalize_prod
RebuildProd(product_of_const, atomic_factors) ==
    LET canonical_var == CanonicalVar(atomic_factors)
        power_sum == PowerSum(atomic_factors)
        others == SelectSeq(atomic_factors,
                            LAMBDA f : ~IsVarFactor(f) /\ ~IsVarPower(f))
        combined == IF power_sum = 1 THEN Append(others, canonical_var)
                    ELSE IF power_sum >= 2
                         THEN Append(others, Power(canonical_var, power_sum))
                    ELSE others
        other_factors == SortedByKey(combined)
    IN  IF \E i \in 1..Len(atomic_factors) : BadPowerBase(atomic_factors[i])
        THEN KeyErrorType
        ELSE IF Len(other_factors) = 0 THEN Const(product_of_const)
        ELSE IF Len(other_factors) = 1
             THEN IF product_of_const = IntNum(1) THEN other_factors[1]
                  ELSE Mul(product_of_const, other_factors[1])
        ELSE IF product_of_const # IntNum(1)
             THEN Mul(product_of_const, Prod(other_factors))
        ELSE Prod(other_factors)

normalize_prod(expr) ==
    LET factors == FlattenFactors(expr.factors)
    IN  IF IsExc(factors) THEN factors
        ELSE LET a == AbsorbConsts(factors.seq, IntNum(1), <<>>)
             IN  IF a.ret THEN a.val
                 ELSE RebuildProd(a.c, a.atoms)

\* the second loop of normalize_sum
\* (the list as [seq |-> ..], or the exception raised on the way)
RECURSIVE FlattenTerms(_)
FlattenTerms(terms) ==
    IF terms = <<>> THEN [seq |-> <<>>]
    ELSE LET term == Head(terms)
         IN  IF ~HasType(term) THEN KeyErrorType
             ELSE LET rest == FlattenTerms(Tail(terms))
                  IN  IF IsExc(rest) THEN rest
                      ELSE IF term.type = "sum" THEN [seq |-> term.terms \o rest.seq]
                      ELSE IF term.type = "const" /\ term.value = IntNum(0) THEN rest
                      ELSE [seq |-> <<term>> \o rest.seq]

\* normalize_sum without the collapse of a one-term sum (lines 192-193)
normalize_sum_KeepSingle(expr) ==
    LET terms == [i \in 1..Len(expr.terms) |-> normalize(expr.terms[i])]
    IN  IF AnyExc(terms) THEN FirstExc(terms)
        ELSE LET new_terms == FlattenTerms(terms)
             IN  IF IsExc(new_terms) THEN new_terms
                 ELSE IF Len(new_terms.seq) = 0 THEN Const(IntNum(0))
                 ELSE Sum(new_terms.seq)

normalize_sum(expr) ==
    LET terms == [i \in 1..Len(expr.terms) |-> normalize(expr.terms[i])]
    IN  IF AnyExc(terms) THEN FirstExc(terms)
        ELSE LET new_terms == FlattenTerms(terms)
             IN  IF IsExc(new_terms) THEN new_terms
                 ELSE IF Len(new_terms.seq) = 0 THEN Const(IntNum(0))
                 ELSE IF Len(new_terms.seq) = 1 THEN new_terms.seq[1]
                 ELSE Sum(new_terms.seq)

normalize_func(expr) ==
    LET arg == normalize(expr.arg)
    IN  IF IsExc(arg) THEN arg
        ELSE IF ~HasType(arg) THEN KeyErrorType
        ELSE IF arg.type # "var"
             THEN unsupported("Unsupported argument in function: " \o expr.name)
        ELSE Func(expr.name, arg)

normalize(expr) ==
    IF ~HasType(expr) THEN KeyErrorType
    ELSE CASE expr.type = "const" -> expr
           [] expr.type = "var" -> expr
           [] expr.type = "power" -> normalize_power(expr)
           [] expr.type = "mul" -> normalize_mul(expr)
           [] expr.type = "prod" -> normalize_prod(expr)
           [] expr.type = "sum" -> normalize_sum(expr)
           [] expr.type = "func" -> normalize_func(expr)
           [] OTHER -> Raise("ValueError",
                             "Unknown expression type in normalization: "
                             \o expr.type)

(* ---------------------------- pretty printer ------------------------- *)

\* A Python string is kept as [neg, txt]: the text is "-" \o txt when neg,
\* txt otherwise, which is what s.startswith("-") and s[1:] read.
Plain(t) == [neg |-> FALSE, txt |-> t]
Full(s) == IF s.neg THEN "-" \o s.txt ELSE s.txt
Cat(a, b) == IF ~a.neg /\ a.txt = "" THEN b
             ELSE [neg |-> a.neg, txt |-> a.txt \o Full(b)]
\* the "const" branch of to_string, mode "fraction"
ConstStr(v) ==
    [neg |-> v[1] < 0,
     txt |-> IF v[2] = 1 THEN ToString(Abs(v[1]))
             ELSE ToString(Abs(v[1])) \o "/" \o ToString(v[2])]

RECURSIVE to_string(_, _)
\* "".join(parts) over the factors of a prod
RECURSIVE JoinFactors(_, _)
JoinFactors(fs, var) ==
    IF fs = <<>> THEN Plain("")
    ELSE LET s == to_string(Head(fs), var)
         IN  IF IsExc(s) THEN s
             ELSE LET rest == JoinFactors(Tail(fs), var)
                  IN  IF IsExc(rest) THEN rest ELSE Cat(s, rest)

\* the loop over terms[1:] of a sum
RECURSIVE JoinTerms(_, _, _)
JoinTerms(result, terms, var) ==
    IF terms = <<>> THEN result
    ELSE LET s == to_string(Head(terms), var)
         IN  IF IsExc(s) THEN s
             ELSE IF s.neg
                  THEN JoinTerms(Cat(result, Plain(" - " \o s.txt)), Tail(terms), var)
                  ELSE JoinTerms(Cat(result, Plain(" + " \o s.txt)), Tail(terms), var)

to_string(expr, var) ==
    IF ~HasType(expr) THEN KeyErrorType
    ELSE CASE expr.type = "const" -> ConstStr(expr.value)
           [] expr.type = "var" -> Plain(var)
           [] expr.type = "power" ->
                LET base_str == to_string(expr.base, var)
                IN  IF IsExc(base_str) THEN base_str
                    ELSE IF expr.base.type = "func"
                         THEN Plain("(" \o Full(base_str) \o ")^" \o ToString(expr.exp))
                    ELSE Cat(base_str, Plain("^" \o ToString(expr.exp)))
           [] expr.type = "mul" ->
                LET inner == to_string(expr.expr, var)
                IN  IF IsExc(inner) THEN inner
                    ELSE LET inner_str ==
                                 IF expr.expr.type \in {"sum", "prod"}
                                 THEN Plain("(" \o Full(inner) \o ")")
                                 ELSE inner
                         IN  IF expr.const = IntNum(-1)
                             THEN [neg |-> TRUE, txt |-> Full(inner_str)]
                             ELSE Cat(ConstStr(expr.const), inner_str)
           [] expr.type = "prod" -> JoinFactors(expr.factors, var)
           [] expr.type = "sum" ->
                LET first == to_string(expr.terms[1], var)
                IN  IF IsExc(first) THEN first
                    ELSE JoinTerms(first, Tail(expr.terms), var)
           [] expr.type = "func" -> Plain(expr.name \o "(" \o var \o ")")
           [] OTHER -> None

(* ------------------------------- rules -------------------------------- *)

\* The integral sign of the step texts is written "INT".
VAR == Var("x")

integrate_const(expr) ==
    LET c == expr.value
    IN  [result |-> Mul(c, VAR),
         steps |-> <<"INT " \o NumStr(c) \o " dx = " \o NumStr(c) \o "x + C">>,
         constant |-> TRUE]

integrate_var(expr) ==
    [result |-> Mul(Fraction(1, 2), Power(expr, 2)),
     steps |-> <<"INT x dx = x^2/2 + C">>,
     constant |-> TRUE]

\* integrate_power testing the exponent (line 74) before the base (line 69)
integrate_power_ExpFirst(expr) ==
    LET base == expr.base
        n == expr.exp
    IN  IF n = -1
        THEN unsupported("Integral of x^-1 needs Logarithms(not implemented yet)")
        ELSE IF ~HasType(base) THEN KeyErrorType
        ELSE IF base.type # "var"
             THEN unsupported("Power rule only supports x^n (no chain rule yet)")
        ELSE [result |-> Mul(Fraction(1, n + 1), Power(base, n + 1)),
              steps |-> <<"INT x^" \o ToString(n) \o " dx = x^" \o ToString(n + 1)
                          \o "/" \o ToString(n + 1) \o " + C">>,
              constant |-> TRUE]

integrate_power(expr) ==
    LET base == expr.base
        n == expr.exp
    IN  IF ~HasType(base) THEN KeyErrorType
        ELSE IF base.type # "var"
             THEN unsupported("Power rule only supports x^n (no chain rule yet)")
        ELSE IF n = -1
             THEN unsupported("Integral of x^-1 needs Logarithms(not implemented yet)")
        ELSE [result |-> Mul(Fraction(1, n + 1), Power(base, n + 1)),
              steps |-> <<"INT x^" \o ToString(n) \o " dx = x^" \o ToString(n + 1)
                          \o "/" \o ToString(n + 1) \o " + C">>,
              constant |-> TRUE]

\* arg["variable"] on a dict without that key
KeyErrorVariable == Raise("KeyError", "'variable'")

integrate_func(expr) ==
    LET name == expr.name
        arg == expr.arg
        arg_var == arg.variable
    IN  IF "variable" \notin DOMAIN arg THEN KeyErrorVariable
        ELSE IF name = "sin"
             THEN [result |-> Mul(IntNum(-1), Func("cos", arg)),
                   steps |-> <<"INT sin(" \o arg_var \o ") dx = -cos(" \o arg_var \o ") + C">>,
                   constant |-> TRUE]
        ELSE IF name = "cos"
             THEN [result |-> Func("sin", arg),
                   steps |-> <<"INT cos(" \o arg_var \o ") dx = sin(" \o arg_var \o ") + C">>,
                   constant |-> TRUE]
        ELSE IF name = "exp"
             THEN [result |-> Func("exp", arg),
                   steps |-> <<"INT exp(" \o arg_var \o ") dx = exp(" \o arg_var \o ") + C">>,
                   constant |-> TRUE]
        ELSE unsupported("Unsupported function: " \o name)

differentiate_const(expr) ==
    [result |-> Const(IntNum(0)),
     steps |-> <<"d/dx(" \o NumStr(expr.value) \o ") = 0">>]

differentiate_var(expr) ==
    [result |-> Const(IntNum(1)), steps |-> <<"d/dx(x) = 1">>]

\* differentiate_power without the decrement of the exponent (line 249)
differentiate_power_KeepExp(expr) ==
    LET base == expr.base
        n == expr.exp
    IN  IF ~HasType(base) THEN KeyErrorType
        ELSE IF base.type # "var"
             THEN unsupported("Power rule only supports x^n (no chain rule yet)")
        ELSE IF n = 0
             THEN [result |-> Const(IntNum(0)),
                   steps |-> <<"d/dx(x^0) = d/dx(1) = 0">>]
        ELSE [result |-> Mul(IntNum(n), Power(base, n)),
              steps |-> <<"d/dx(x^" \o ToString(n) \o ") = " \o ToString(n)
                          \o "x^(" \o ToString(n - 1) \o ")">>]

differentiate_power(expr) ==
    LET base == expr.base
        n == expr.exp
    IN  IF ~HasType(base) THEN KeyErrorType
        ELSE IF base.type # "var"
             THEN unsupported("Power rule only supports x^n (no chain rule yet)")
        ELSE IF n = 0
             THEN [result |-> Const(IntNum(0)),
                   steps |-> <<"d/dx(x^0) = d/dx(1) = 0">>]
        ELSE [result |-> Mul(IntNum(n), Power(base, n - 1)),
              steps |-> <<"d/dx(x^" \o ToString(n) \o ") = " \o ToString(n)
                          \o "x^(" \o ToString(n - 1) \o ")">>]

\* differentiate_func without the sign of the derivative of cos (line 331)
differentiate_func_NoSign(expr) ==
    LET name == expr.name
        arg == expr.arg
        arg_var == arg.variable
    IN  IF "variable" \notin DOMAIN arg THEN KeyErrorVariable
        ELSE IF name = "sin"
             THEN [result |-> Func("cos", arg),
                   steps |-> <<"d/dx(sin(" \o arg_var \o ")) = cos(" \o arg_var \o ")">>]
        ELSE IF name = "cos"
             THEN [result |-> Func("sin", arg),
                   steps |-> <<"d/dx(cos(" \o arg_var \o ")) = -sin(" \o arg_var \o ")">>]
        ELSE IF name = "exp"
             THEN [result |-> Func("exp", arg),
                   steps |-> <<"d/dx(exp(" \o arg_var \o ")) = exp(" \o arg_var \o ")">>]
        ELSE unsupported("Unsupported Function: " \o name)

differentiate_func(expr) ==
    LET name == expr.name
        arg == expr.arg
        arg_var == arg.variable
    IN  IF "variable" \notin DOMAIN arg THEN KeyErrorVariable
        ELSE IF name = "sin"
             THEN [result |-> Func("cos", arg),
                   steps |-> <<"d/dx(sin(" \o arg_var \o ")) = cos(" \o arg_var \o ")">>]
        ELSE IF name = "cos"
             THEN [result |-> Mul(IntNum(-1), Func("sin", arg)),
                   steps |-> <<"d/dx(cos(" \o arg_var \o ")) = -sin(" \o arg_var \o ")">>]
        ELSE IF name = "exp"
             THEN [result |-> Func("exp", arg),
                   steps |-> <<"d/dx(exp(" \o arg_var \o ")) = exp(" \o arg_var \o ")">>]
        ELSE unsupported("Unsupported Function: " \o name)

\* the branches of integrate_mul after the recursive call has returned
integrate_mul_tail(c, result) ==
    IF result.result.type = "const"
    THEN [result |-> Const(NumMul(c, result.result.value)),
          steps |-> <<"Combined Constant Factors">> \o result.steps,
          constant |-> TRUE]
    ELSE [result |-> Mul(c, result.result),
          steps |-> <<"Extracted the constant " \o NumStr(c) \o ":">> \o result.steps,
          constant |-> TRUE]

\* the zero-constant branch of integrate_mul without its "constant" key
integrate_mul_zero_NoFlag ==
    [result |-> Const(IntNum(0)),
     steps |-> <<"Integral of 0 is 0">>,
     constant |-> FALSE]

\* the c == 0 branch of integrate_mul
integrate_mul_zero ==
    [result |-> Const(IntNum(0)),
     steps |-> <<"Integral of 0 is 0">>,
     constant |-> TRUE]

\* differentiate_mul after the recursive call has returned
differentiate_mul_tail(c, result) ==
    [result |-> Mul(c, result.result),
     steps |-> <<"Extracted the constant " \o NumStr(c) \o ":">> \o result.steps]

\* integrate_sum building its steps without the header (line 167)
integrate_sum_tail_NoHeader(integrated_terms, all_steps) ==
    [result |-> Sum(integrated_terms),
     steps |-> all_steps,
     constant |-> TRUE]

\* integrate_sum after its loop
integrate_sum_tail(integrated_terms, all_steps) ==
    [result |-> Sum(integrated_terms),
     steps |-> <<"Using Linearity of Integration:">> \o all_steps,
     constant |-> TRUE]

\* differentiate_sum after its loop
differentiate_sum_tail(differentiated_terms, all_steps) ==
    [result |-> Sum(differentiated_terms),
     steps |-> <<"Using Linearity of Differentiation:">> \o all_steps]

(* ----------------------------- dispatchers ---------------------------- *)

\* core.integrate / core.differentiate from `if "error" in out` on
\* the dispatcher's post-processing without its normalize(out["result"])
Finish_NoNormalize(o, out, var) ==
    IF IsExc(out) \/ IsError(out) THEN out
    ELSE LET res == out.result
             str == to_string(res, var)
             constant == "constant" \in DOMAIN out /\ out.constant
         IN  IF IsExc(str) THEN str
             ELSE IF o = "integrate"
                  THEN out @@ [string |-> Full(str) \o (IF constant THEN " + C" ELSE "")]
             ELSE out @@ [string |-> Full(str)]

Finish(o, out, var) ==
    IF IsExc(out) \/ IsError(out) THEN out
    ELSE LET res == normalize(out.result)
             str == to_string(res, var)
             constant == "constant" \in DOMAIN out /\ out.constant
         IN  IF IsExc(res) THEN res
             ELSE IF IsExc(str) THEN str
             ELSE IF o = "integrate"
                  THEN [out EXCEPT !.result = res]
                       @@ [string |-> Full(str) \o (IF constant THEN " + C" ELSE "")]
             ELSE [out EXCEPT !.result = res] @@ [string |-> Full(str)]

\* the rules that make no recursive call
LeafRule(o, expr) ==
    IF o = "integrate"
    THEN CASE expr.type = "const" -> integrate_const(expr)
           [] expr.type = "var" -> integrate_var(expr)
           [] expr.type = "power" -> integrate_power(expr)
           [] expr.type = "func" -> integrate_func(expr)
    ELSE CASE expr.type = "const" -> differentiate_const(expr)
           [] expr.type = "var" -> differentiate_var(expr)
           [] expr.type = "power" -> differentiate_power(expr)
           [] expr.type = "func" -> differentiate_func(expr)

(* ------------------------------- inputs ------------------------------- *)

\* the single-letter variable of an input string
VarNames == {"x", "t"}
\* multi-letter identifiers: tokenize makes any of them a NAME
FuncNames == {"sin", "cos", "exp", "tan"}

\* parse_term: a NUMBER or the VAR
RawAtoms(v) == {Var(v)} \cup {Const(IntNum(n)) : n \in 0..MaxNum}

\* what parse_term, parse_power, parse_mul and parse_expr build over the
\* trees of S, a two-operand sum or product taking its other operand from Sib:
\* unary minus, a numeric coefficient on one non-constant factor, an exponent
\* literal, a function call, a sum, a product of non-constant factors
Parsed(S, Sib) ==
    LET NonConst(T) == {e \in T : e.type # "const"}
    IN  S
        \cup {Mul(IntNum(-1), e) : e \in S}
        \cup {Mul(IntNum(c), e) : c \in (0..MaxNum) \ {1}, e \in NonConst(S)}
        \cup {Power(e, n) : e \in S, n \in 0..MaxExp}
        \cup {Func(nm, e) : nm \in FuncNames, e \in S}
        \cup {Sum(<<e, b>>) : e \in S, b \in Sib}
        \cup {Sum(<<b, e>>) : e \in S, b \in Sib}
        \cup {Prod(<<e, b>>) : e \in NonConst(S), b \in NonConst(Sib)}
        \cup {Prod(<<b, e>>) : e \in NonConst(S), b \in NonConst(Sib)}

\* parse_term: a NUMBER, the VAR, or a NAME applied to the VAR
RawTerms(v) == RawAtoms(v) \cup {Func(nm, Var(v)) : nm \in FuncNames}

Raw1(v) == Parsed(RawTerms(v), RawAtoms(v))
RawSiblings(v) ==
    {Var(v), Const(IntNum(1)), Func("sin", Var(v)), Power(Var(v), MaxExp),
     Prod(<<Var(v), Func("sin", Var(v))>>)}
RawTrees(v) == Parsed(Raw1(v), RawSiblings(v))

\* Trees a caller of core.differentiate / core.integrate builds by hand, as
\* examples/invariants.py does: any coefficient (0, 1, negative, a Fraction),
\* any integer exponent from -1 on, any operand kind.
BuiltCoefs == {IntNum(c) : c \in -1..MaxNum} \cup {Fraction(1, 2)}
BuiltAtoms == {Var("x")} \cup {Const(c) : c \in BuiltCoefs}
Built(S, Sib) ==
    S
    \cup {Mul(c, e) : c \in BuiltCoefs, e \in S}
    \cup {Power(e, n) : e \in S, n \in -1..(MaxExp + 1)}
    \cup {Func(nm, e) : nm \in FuncNames, e \in S}
    \cup {Sum(<<e, b>>) : e \in S, b \in Sib}
    \cup {Sum(<<b, e>>) : e \in S, b \in Sib}
    \cup {Prod(<<e, b>>) : e \in S, b \in Sib}
    \cup {Prod(<<b, e>>) : e \in S, b \in Sib}

Built1 == Built(BuiltAtoms, BuiltAtoms)
BuiltSiblings ==
    {Var("x"), Func("cos", Var("x")), Power(Var("x"), MaxExp + 1),
     Prod(<<Var("x"), Func("cos", Var("x"))>>)}
BuiltTrees == Built(Built1, BuiltSiblings)

\* seen_var of tokenize: the variable letter of the string, None without one
RECURSIVE SeenVar(_)
RECURSIVE SeenVarIn(_)
SeenVarIn(es) ==
    IF es = <<>> THEN None
    ELSE LET v == SeenVar(Head(es))
         IN  IF v = None THEN SeenVarIn(Tail(es)) ELSE v
SeenVar(e) ==
    CASE e.type = "var" -> [name |-> e.variable]
      [] e.type = "const" -> None
      [] e.type = "power" -> SeenVar(e.base)
      [] e.type = "mul" -> SeenVar(e.expr)
      [] e.type = "func" -> SeenVar(e.arg)
      [] e.type = "sum" -> SeenVarIn(e.terms)
      [] e.type = "prod" -> SeenVarIn(e.factors)

(* ---------------------------- state machine --------------------------- *)

Eval(e) == [k |-> "eval", expr |-> e]
Ret(o) == [k |-> "ret", out |-> o]
MulFrame(c) == [kind |-> "mul", c |-> c]
SumFrame(ts, i, rs, ss) ==
    [kind |-> "sum", terms |-> ts, idx |-> i, results |-> rs, all_steps |-> ss]

OtherOp(o) == IF o = "integrate" THEN "differentiate" ELSE "integrate"

\* Either differentiate_string / integrate_string is about to run on the
\* string whose raw tree is `raw`, or core.differentiate / core.integrate has
\* been called on the hand-built tree `raw` (var_name left at its default).
Init ==
    /\ op \in {"differentiate", "integrate"}
    /\ stack = <<>>
    /\ chained = FALSE
    /\ given = None
    /\ \/ /\ src = "string"
          /\ \E v \in VarNames : raw \in RawTrees(v)
          /\ parsed = None
          /\ pc = "parse"
          /\ ctl = None
       \/ /\ src = "ast"
          /\ raw \in BuiltTrees
          /\ parsed = [ast |-> raw, var |-> "x"]
          /\ pc = "run"
          /\ ctl = Eval(raw)

\* differentiate_string / integrate_string up to the call of the dispatcher:
\* parse_string normalizes; any exception becomes unsupported(str(e))
ParseString ==
    /\ pc = "parse"
    /\ LET ast == normalize(raw)
           seen_var == SeenVar(raw)
       IN  IF IsExc(ast)
           THEN /\ pc' = "done"
                /\ ctl' = Ret(unsupported(ast.message))
                /\ parsed' = parsed
           ELSE /\ pc' = "run"
                /\ ctl' = Eval(ast)
                /\ parsed' = [ast |-> ast,
                            var |-> IF seen_var = None THEN "x" ELSE seen_var.name]
    /\ UNCHANGED <<op, src, raw, stack, chained, given>>

\* the `expr` the running call was given, and the name it prints
CallVar == parsed.var

\* const, var, power, func: the rule makes no recursive call
DispatchLeaf ==
    /\ pc = "run" /\ ctl.k = "eval"
    /\ TypeOf(ctl.expr) \in {"const", "var", "power", "func"}
    /\ ctl' = Ret(Finish(op, LeafRule(op, ctl.expr), CallVar))
    /\ UNCHANGED <<op, src, raw, parsed, pc, stack, chained, given>>

\* differentiate_mul given the zero-constant return of integrate_mul
DispatchMul_ZeroBoth ==
    /\ pc = "run" /\ ctl.k = "eval"
    /\ TypeOf(ctl.expr) = "mul"
    /\ IF ctl.expr.const = IntNum(0)
       THEN /\ ctl' = Ret(Finish(op, integrate_mul_zero, CallVar))
            /\ stack' = stack
       ELSE /\ ctl' = Eval(ctl.expr.expr)
            /\ stack' = <<MulFrame(ctl.expr.const)>> \o stack
    /\ UNCHANGED <<op, src, raw, parsed, pc, chained, given>>

\* mul: integrate_mul / differentiate_mul up to the recursive call
DispatchMul ==
    /\ pc = "run" /\ ctl.k = "eval"
    /\ TypeOf(ctl.expr) = "mul"
    /\ IF op = "integrate" /\ ctl.expr.const = IntNum(0)
       THEN /\ ctl' = Ret(Finish(op, integrate_mul_zero, CallVar))
            /\ stack' = stack
       ELSE /\ ctl' = Eval(ctl.expr.expr)
            /\ stack' = <<MulFrame(ctl.expr.const)>> \o stack
    /\ UNCHANGED <<op, src, raw, parsed, pc, chained, given>>

\* sum: integrate_sum / differentiate_sum up to the first recursive call
DispatchSum ==
    /\ pc = "run" /\ ctl.k = "eval"
    /\ TypeOf(ctl.expr) = "sum"
    /\ LET terms == ctl.expr.terms
       IN  IF terms = <<>>
           THEN /\ ctl' = Ret(Finish(op,
                                     IF op = "integrate"
                                     THEN integrate_sum_tail(<<>>, <<>>)
                                     ELSE differentiate_sum_tail(<<>>, <<>>),
                                     CallVar))
                /\ stack' = stack
           ELSE /\ ctl' = Eval(terms[1])
                /\ stack' = <<SumFrame(terms, 1, <<>>, <<>>)>> \o stack
    /\ UNCHANGED <<op, src, raw, parsed, pc, chained, given>>

\* prod: the dispatcher returns unsupported itself
DispatchProd ==
    /\ pc = "run" /\ ctl.k = "eval"
    /\ TypeOf(ctl.expr) = "prod"
    /\ ctl' = Ret(unsupported(IF op = "integrate"
                              THEN "Integration of products not implemented yet"
                              ELSE "Product rule not implemented yet"))
    /\ UNCHANGED <<op, src, raw, parsed, pc, stack, chained, given>>

\* any other value of expr.get("type")
DispatchOther ==
    /\ pc = "run" /\ ctl.k = "eval"
    /\ TypeOf(ctl.expr) \notin {"const", "var", "power", "func", "mul", "sum", "prod"}
    /\ ctl' = Ret(unsupported("Unsupported Expression Type: " \o TypeOf(ctl.expr)))
    /\ UNCHANGED <<op, src, raw, parsed, pc, stack, chained, given>>

\* integrate_mul / differentiate_mul reporting a failure of their own in
\* place of the one the recursive call returned
ReturnMul_Wrap ==
    /\ pc = "run" /\ ctl.k = "ret"
    /\ stack # <<>> /\ Head(stack).kind = "mul"
    /\ LET result == ctl.out
           c == Head(stack).c
       IN  ctl' = IF IsExc(result) THEN Ret(result)
                  ELSE IF IsError(result)
                       THEN Ret(unsupported("Unsupported scalar multiple"))
                  ELSE Ret(Finish(op,
                                  IF op = "integrate"
                                  THEN integrate_mul_tail(c, result)
                                  ELSE differentiate_mul_tail(c, result),
                                  CallVar))
    /\ stack' = Tail(stack)
    /\ UNCHANGED <<op, src, raw, parsed, pc, chained, given>>

\* the recursive call of integrate_mul / differentiate_mul returns
ReturnMul ==
    /\ pc = "run" /\ ctl.k = "ret"
    /\ stack # <<>> /\ Head(stack).kind = "mul"
    /\ LET result == ctl.out
           c == Head(stack).c
       IN  ctl' = IF IsExc(result) \/ IsError(result) THEN Ret(result)
                  ELSE Ret(Finish(op,
                                  IF op = "integrate"
                                  THEN integrate_mul_tail(c, result)
                                  ELSE differentiate_mul_tail(c, result),
                                  CallVar))
    /\ stack' = Tail(stack)
    /\ UNCHANGED <<op, src, raw, parsed, pc, chained, given>>

\* the loop of integrate_sum / differentiate_sum without its early return:
\* a failed term is dropped and the loop goes on
ReturnSum_SkipFailed ==
    /\ pc = "run" /\ ctl.k = "ret"
    /\ stack # <<>> /\ Head(stack).kind = "sum"
    /\ LET result == ctl.out
           f == Head(stack)
           failed == IsExc(result) \/ IsError(result)
           rs == IF failed THEN f.results ELSE Append(f.results, result.result)
           ss == IF failed THEN f.all_steps ELSE Append(f.all_steps, result.steps)
       IN  IF f.idx < Len(f.terms)
           THEN /\ ctl' = Eval(f.terms[f.idx + 1])
                /\ stack' = <<SumFrame(f.terms, f.idx + 1, rs, ss)>>
                            \o Tail(stack)
           ELSE /\ ctl' = Ret(Finish(op,
                                     IF op = "integrate"
                                     THEN integrate_sum_tail(rs, ss)
                                     ELSE differentiate_sum_tail(rs, ss),
                                     CallVar))
                /\ stack' = Tail(stack)
    /\ UNCHANGED <<op, src, raw, parsed, pc, chained, given>>

\* a recursive call of the loop of integrate_sum / differentiate_sum returns
ReturnSum ==
    /\ pc = "run" /\ ctl.k = "ret"
    /\ stack # <<>> /\ Head(stack).kind = "sum"
    /\ LET result == ctl.out
           f == Head(stack)
       IN  IF IsExc(result) \/ IsError(result)
           THEN /\ ctl' = Ret(result)
                /\ stack' = Tail(stack)
           ELSE LET rs == Append(f.results, result.result)
                    ss == Append(f.all_steps, result.steps)
                IN  IF f.idx < Len(f.terms)
                    THEN /\ ctl' = Eval(f.terms[f.idx + 1])
                         /\ stack' = <<SumFrame(f.terms, f.idx + 1, rs, ss)>>
                                     \o Tail(stack)
                    ELSE /\ ctl' = Ret(Finish(op,
                                              IF op = "integrate"
                                              THEN integrate_sum_tail(rs, ss)
                                              ELSE differentiate_sum_tail(rs, ss),
                                              CallVar))
                         /\ stack' = Tail(stack)
    /\ UNCHANGED <<op, src, raw, parsed, pc, chained, given>>

\* the outermost call returns (or its exception leaves it) to the caller
ReturnTop ==
    /\ pc = "run" /\ ctl.k = "ret"
    /\ stack = <<>>
    /\ pc' = "done"
    /\ UNCHANGED <<op, src, raw, parsed, ctl, stack, chained, given>>

\* the caller hands the result tree of a successful call to the other
\* operation (core.differentiate / core.integrate on an AST), keeping the
\* expression it gave to the first call in `given`
Chain ==
    /\ pc = "done" /\ ~chained
    /\ ~IsExc(ctl.out) /\ ~IsError(ctl.out)
    /\ op' = OtherOp(op)
    /\ src' = "ast"
    /\ parsed' = [ast |-> ctl.out.result, var |-> CallVar]
    /\ ctl' = Eval(ctl.out.result)
    /\ pc' = "run"
    /\ chained' = TRUE
    /\ given' = parsed.ast
    /\ UNCHANGED <<raw, stack>>

Next ==
    \/ ParseString
    \/ DispatchLeaf
    \/ DispatchMul
    \/ DispatchSum
    \/ DispatchProd
    \/ DispatchOther
    \/ ReturnMul
    \/ ReturnSum
    \/ ReturnTop
    \/ Chain


Spec == Init /\ [][Next]_vars

(* ------------------- structural invariants (walk) --------------------- *)

\* examples/invariants.py walk: every record of the tree, the tree included
RECURSIVE SubTrees(_)
SubTrees(e) ==
    {e} \cup
    CASE TypeOf(e) = "sum" -> UNION {SubTrees(e.terms[i]) : i \in 1..Len(e.terms)}
      [] TypeOf(e) = "prod" -> UNION {SubTrees(e.factors[i]) : i \in 1..Len(e.factors)}
      [] TypeOf(e) = "mul" -> SubTrees(e.expr)
      [] TypeOf(e) = "power" -> SubTrees(e.base)
      [] TypeOf(e) = "func" -> SubTrees(e.arg)
      [] OTHER -> {}

\* 1: a Mul's inner is never Const and never another Mul
MulInnerOk(n) == TypeOf(n) = "mul" => TypeOf(n.expr) \notin {"const", "mul"}
\* 2: a Power's exponent is >= 2
PowerExpOk(n) == TypeOf(n) = "power" => n.exp >= 2
\* 3: a Sum has >= 2 terms, none a Sum or a zero Const
SumOk(n) ==
    TypeOf(n) = "sum" =>
        /\ Len(n.terms) >= 2
        /\ \A i \in 1..Len(n.terms) :
              /\ TypeOf(n.terms[i]) # "sum"
              /\ n.terms[i] # Const(IntNum(0))
\* 4: a Prod has >= 2 factors, each a Var, a Power or a Func
ProdOk(n) ==
    TypeOf(n) = "prod" =>
        /\ Len(n.factors) >= 2
        /\ \A i \in 1..Len(n.factors) :
              TypeOf(n.factors[i]) \in {"var", "power", "func"}
\* 5: Prod factors are ordered Var < Power < Func
ProdOrdered(n) ==
    (TypeOf(n) = "prod" /\ ProdOk(n)) =>
        \A i \in 1..(Len(n.factors) - 1) :
            prod_order_key(n.factors[i]) <= prod_order_key(n.factors[i + 1])
\* 6: a Power that is a Prod factor has a Var as its base
ProdPowerBaseOk(n) ==
    TypeOf(n) = "prod" =>
        \A i \in 1..Len(n.factors) :
            TypeOf(n.factors[i]) = "power" => TypeOf(n.factors[i].base) = "var"
\* 7: a Func's argument is a bare Var
FuncArgOk(n) == TypeOf(n) = "func" => TypeOf(n.arg) = "var"
\* 8: a Func's name is sin, cos or exp
FuncNameOk(n) == TypeOf(n) = "func" => n.name \in {"sin", "cos", "exp"}

\* every record of the tree is a node
IsTree(e) == \A n \in SubTrees(e) : HasType(n)

\* assert_all_invariants, with the clauses of the eight invariants that
\* examples/invariants.py leaves out (Sum terms, Prod order)
Canonical(e) ==
    \A n \in SubTrees(e) :
        /\ HasType(n)
        /\ MulInnerOk(n) /\ PowerExpOk(n) /\ SumOk(n) /\ ProdOk(n)
        /\ ProdOrdered(n) /\ ProdPowerBaseOk(n) /\ FuncArgOk(n) /\ FuncNameOk(n)

(* ------------------------------- claims ------------------------------- *)

\* the call whose result ctl holds has returned normally
Succeeded(o) == ~IsExc(o) /\ ~IsError(o)
\* normalize(raw), as parse_string took it
Normalized == src = "string" /\ parsed # None

\* C1: normalize is idempotent: for every raw tree of the grammar on which
\* normalize returns a tree, normalize(normalize(e)) = normalize(e).
C1_Idempotent ==
    (Normalized /\ IsTree(parsed.ast)) => normalize(parsed.ast) = parsed.ast

\* C2: on an input satisfying the eight invariants, every successful
\* differentiate / integrate call (the outermost one and every recursive one)
\* returns a result tree satisfying the eight invariants.
C2_InvariantsPreserved ==
    (pc # "parse" /\ parsed # None /\ ctl.k = "ret" /\ Succeeded(ctl.out)
     /\ Canonical(parsed.ast))
        => Canonical(ctl.out.result)

C2_Witness ==
    /\ pc = "done" /\ op = "integrate" /\ Succeeded(ctl.out)
    /\ Canonical(parsed.ast) /\ parsed.ast.type = "sum"
    /\ \E i \in 1..Len(parsed.ast.terms) : parsed.ast.terms[i].type = "mul"
    /\ ctl.out.result.type = "sum"

\* every Func argument of the raw tree is a bare Var
FuncArgsBare(e) == \A n \in SubTrees(e) : n.type = "func" => n.arg.type = "var"

\* C3: normalize is total: on every raw tree of the grammar whose Func
\* arguments are bare Vars it returns a node carrying one of the seven
\* tags, never an error record and never an exception.
C3_Total ==
    (src = "string" /\ pc # "parse" /\ FuncArgsBare(raw))
        => (parsed # None /\ HasType(parsed.ast))

\* C4: in every tree normalize returns for a raw tree of the grammar, a
\* Power that is a direct factor of a Prod has a Var as its base.
C4_ProdPowerBase ==
    (Normalized /\ IsTree(parsed.ast))
        => \A n \in SubTrees(parsed.ast) : ProdPowerBaseOk(n)

\* C5: in every tree normalize returns for a raw tree of the grammar, every
\* Func has a name in {sin, cos, exp}.
C5_FuncName ==
    (Normalized /\ IsTree(parsed.ast))
        => \A n \in SubTrees(parsed.ast) : FuncNameOk(n)

\* C6: in every tree normalize returns (for a raw tree of the grammar, and
\* for the result of a rewrite), the inner expression of a Mul is neither a
\* Const nor a Mul; under a coefficient c that normalize_mul does not
\* short-circuit (c # 0), an inner that normalizes to Const v gives
\* Const(c * v) and an inner that normalizes to Mul(d, f) gives Mul(c * d, f).
C6_MulInner ==
    /\ (pc # "parse" /\ ctl.k = "ret" /\ Succeeded(ctl.out)) =>
          \A n \in SubTrees(ctl.out.result) : MulInnerOk(n)
    /\ Normalized =>
        /\ \A n \in SubTrees(parsed.ast) : MulInnerOk(n)
        /\ (raw.type = "mul" /\ raw.const # IntNum(0)) =>
              LET inner == normalize(raw.expr)
              IN  /\ TypeOf(inner) = "const" =>
                        parsed.ast = Const(NumMul(raw.const, inner.value))
                  /\ TypeOf(inner) = "mul" =>
                        parsed.ast = Mul(NumMul(raw.const, inner.const), inner.expr)

C6_Witness ==
    /\ Normalized
    /\ raw.type = "mul" /\ raw.const = IntNum(MaxNum)
    /\ raw.expr.type = "mul" /\ raw.expr.const = IntNum(MaxNum)
    /\ parsed.ast.type = "mul"
    /\ parsed.ast.const = IntNum(MaxNum * MaxNum)

\* a failure: an unsupported(..) record or a raised exception
Failed(o) == IsExc(o) \/ IsError(o)

\* C7: a Sum's terms are rewritten in order; when the rewrite of term k
\* fails, the Sum call returns exactly that failure and rewrites no later
\* term.
C7_SumStep ==
    /\ (pc = "run" /\ ctl.k = "eval" /\ TypeOf(ctl.expr) = "sum"
        /\ ctl.expr.terms # <<>>) =>
            /\ ctl' = Eval(ctl.expr.terms[1])
            /\ Head(stack') = SumFrame(ctl.expr.terms, 1, <<>>, <<>>)
            /\ Tail(stack') = stack
    /\ (pc = "run" /\ ctl.k = "ret" /\ stack # <<>> /\ Head(stack).kind = "sum") =>
        LET f == Head(stack)
        IN  IF Failed(ctl.out)
            THEN ctl' = ctl /\ stack' = Tail(stack) /\ pc' = "run"
            ELSE f.idx < Len(f.terms) =>
                    /\ ctl' = Eval(f.terms[f.idx + 1])
                    /\ Head(stack').idx = f.idx + 1
                    /\ Head(stack').results = Append(f.results, ctl.out.result)
                    /\ Tail(stack') = Tail(stack)
C7_SumFirstFailure ==
    [][C7_SumStep]_vars

C7_Witness ==
    /\ pc = "run" /\ ctl.k = "ret" /\ IsError(ctl.out)
    /\ stack # <<>> /\ Head(stack).kind = "sum"
    /\ Head(stack).idx > 1
    /\ Head(stack).idx < Len(Head(stack).terms)

\* the failure the dispatchers give for a Prod
C8_Reason(o) ==
    [error |-> TRUE,
     reason |-> IF o = "integrate"
                THEN "Integration of products not implemented yet"
                ELSE "Product rule not implemented yet"]

\* C8 as stated: on an input satisfying the eight invariants, differentiate
\* and integrate fail on a Prod with the product reason, and return that same
\* failure whenever the Prod is the inner of a Mul or a term of a Sum.
C8_AsStated ==
    (pc = "done" /\ parsed # None /\ Canonical(parsed.ast)) =>
        LET e == parsed.ast
        IN  (\/ e.type = "prod"
             \/ e.type = "mul" /\ TypeOf(e.expr) = "prod"
             \/ e.type = "sum" /\ \E i \in 1..Len(e.terms) : TypeOf(e.terms[i]) = "prod")
                => ctl.out = C8_Reason(op)

\* the outermost call: a Prod; a Mul over a Prod that the rule visits; a Sum
\* whose terms before its first Prod are Consts, Vars or Powers of the Var
\* with exponent >= 0 (terms whose rewrite succeeds)
C8_Outermost ==
    (pc = "done" /\ parsed # None /\ HasType(parsed.ast)) =>
        LET e == parsed.ast
            Plain1(t) == \/ TypeOf(t) \in {"const", "var"}
                         \/ TypeOf(t) = "power" /\ TypeOf(t.base) = "var" /\ t.exp >= 0
        IN  (\/ e.type = "prod"
             \/ /\ e.type = "mul" /\ TypeOf(e.expr) = "prod"
                /\ ~(op = "integrate" /\ e.const = IntNum(0))
             \/ /\ e.type = "sum"
                /\ \E i \in 1..Len(e.terms) :
                      /\ TypeOf(e.terms[i]) = "prod"
                      /\ \A j \in 1..(i - 1) : Plain1(e.terms[j]))
                => ctl.out = C8_Reason(op)

\* every call: a Prod that is dispatched fails with the product reason, and
\* each enclosing Mul or Sum call the failure returns to hands it on unchanged
C8_Step ==
    /\ (pc = "run" /\ ctl.k = "eval" /\ TypeOf(ctl.expr) = "prod")
          => (ctl' = Ret(C8_Reason(op)) /\ stack' = stack)
    /\ (pc = "run" /\ ctl = Ret(C8_Reason(op)) /\ stack # <<>>)
          => (ctl' = ctl /\ stack' = Tail(stack))

\* C8, amended: differentiate and integrate always fail on a Prod with the
\* product reason; the failure is returned unchanged by every enclosing call
\* it reaches, so it is the result when the Prod is the inner of a Mul the
\* rule visits (integrate does not visit the inner of a Mul with coefficient
\* 0) or a term of a Sum whose earlier terms succeed.
C8_ProdFails ==
    []C8_Outermost /\ [][C8_Step]_vars

C8_Witness ==
    /\ pc = "done" /\ op = "integrate" /\ parsed # None
    /\ TypeOf(parsed.ast) = "mul" /\ parsed.ast.const # IntNum(0)
    /\ TypeOf(parsed.ast.expr) = "prod"
    /\ ctl.out = C8_Reason(op)

\* the raw tree holds a Func whose argument does not normalize to a bare Var
HasBadFuncArg(e) ==
    \E n \in SubTrees(e) : n.type = "func" /\ TypeOf(normalize(n.arg)) # "var"

\* C9: when the raw tree holds, at any position, a Func whose argument does
\* not normalize to a bare Var, differentiate_string / integrate_string
\* return a failure carrying the unsupported-function-argument reason.
C9_BadArgReported ==
    (src = "string" /\ pc = "done" /\ HasBadFuncArg(raw)) =>
        /\ IsError(ctl.out)
        /\ ctl.out.reason \in
              {"Unsupported argument in function: " \o nm : nm \in FuncNames}

\* out.get("constant")
Indefinite(o) == "constant" \in DOMAIN o /\ o.constant
\* integrate's zero-constant special case: a Mul whose coefficient is 0
IsZeroMul(e) == TypeOf(e) = "mul" /\ e.const = IntNum(0)

\* C10 as stated: on an input satisfying the eight invariants, a successful
\* integrate marks its result indefinite in every branch except the
\* zero-constant special case, which does not.
C10_AsStated ==
    (pc = "done" /\ op = "integrate" /\ parsed # None /\ Succeeded(ctl.out)
     /\ Canonical(parsed.ast)) =>
        (Indefinite(ctl.out) <=> ~IsZeroMul(parsed.ast))

\* C10, amended: every successful integrate call, the outermost one and every
\* recursive one, the zero-constant special case included, returns a result
\* marked indefinite; no Mul or Sum branch clears the mark.
C10_AlwaysIndefinite ==
    (pc # "parse" /\ op = "integrate" /\ ctl.k = "ret" /\ Succeeded(ctl.out))
        => Indefinite(ctl.out)

C10_Witness ==
    /\ pc = "done" /\ op = "integrate" /\ Succeeded(ctl.out)
    /\ IsZeroMul(parsed.ast)
    /\ ctl.out.result = Const(IntNum(0))
    /\ Indefinite(ctl.out)

\* the call in hand is the dispatch of operation o on a Power whose base is
\* a node
AtPower(o) ==
    /\ pc = "run" /\ ctl.k = "eval" /\ op = o
    /\ TypeOf(ctl.expr) = "power" /\ HasType(ctl.expr.base)

\* the failure both power rules give for a base that is not a Var
ChainRuleReason ==
    unsupported("Power rule only supports x^n (no chain rule yet)")

\* C11: differentiate on Power(base, n), at the top or in a recursive call:
\* a base that is not a Var fails with the chain-rule reason; n = 0 gives
\* Const 0; n = 1 gives Const 1; n = 2 gives Mul(2, base), rendered "2x";
\* any other n gives Mul(n, Power(base, n - 1)).
C11_Step ==
    AtPower("differentiate") =>
        LET base == ctl.expr.base
            n == ctl.expr.exp
        IN  /\ ctl'.k = "ret" /\ stack' = stack
            /\ IF base.type # "var" THEN ctl'.out = ChainRuleReason
               ELSE /\ Succeeded(ctl'.out)
                    /\ ctl'.out.result =
                          CASE n = 0 -> Const(IntNum(0))
                            [] n = 1 -> Const(IntNum(1))
                            [] n = 2 -> Mul(IntNum(2), base)
                            [] OTHER -> Mul(IntNum(n), Power(base, n - 1))
                    /\ n = 2 => ctl'.out.string = "2" \o CallVar
C11_DifferentiatePower ==
    [][C11_Step]_vars

C11_Witness ==
    /\ pc = "done" /\ op = "differentiate" /\ parsed # None
    /\ parsed.ast = Power(Var("x"), MaxExp + 1)
    /\ ctl.out.result = Mul(IntNum(MaxExp + 1), Power(Var("x"), MaxExp))

\* the failure integrate_power gives for x^-1
LogarithmReason ==
    unsupported("Integral of x^-1 needs Logarithms(not implemented yet)")

\* C12: integrate on Power(base, n), at the top or in a recursive call: a
\* base that is not a Var fails with the chain-rule reason whatever n is; a
\* Var base with n = -1 fails with the logarithm reason; n = 0 gives the
\* base; any other n gives Mul(1/(n+1), Power(base, n+1)) with the exact
\* rational 1/(n+1); the result is marked indefinite, and x^3 is rendered
\* "1/4x^4 + C".
C12_Step ==
    AtPower("integrate") =>
        LET base == ctl.expr.base
            n == ctl.expr.exp
        IN  /\ ctl'.k = "ret" /\ stack' = stack
            /\ IF base.type # "var" THEN ctl'.out = ChainRuleReason
               ELSE IF n = -1 THEN ctl'.out = LogarithmReason
               ELSE /\ Succeeded(ctl'.out)
                    /\ ctl'.out.result =
                          IF n = 0 THEN base
                          ELSE Mul(Fraction(1, n + 1), Power(base, n + 1))
                    /\ Indefinite(ctl'.out)
                    /\ n = 3 => ctl'.out.string = "1/4" \o CallVar \o "^4 + C"
C12_IntegratePower ==
    [][C12_Step]_vars

C12_Witness ==
    /\ pc = "done" /\ op = "integrate" /\ parsed # None
    /\ parsed.ast = Power(Var("x"), MaxExp + 1)
    /\ ctl.out.result = Mul(Fraction(1, MaxExp + 2), Power(Var("x"), MaxExp + 2))
    /\ Indefinite(ctl.out)

\* C13: on a Func whose argument is a Var, at the top or in a recursive
\* call: differentiate gives cos(arg) for sin, Mul(-1, sin(arg)) for cos,
\* exp(arg) for exp; integrate gives Mul(-1, cos(arg)) for sin, sin(arg) for
\* cos, exp(arg) for exp; any other name fails with the unknown-function
\* reason naming it; arg is the argument node of the input, unchanged.
C13_Step ==
    (pc = "run" /\ ctl.k = "eval" /\ TypeOf(ctl.expr) = "func"
     /\ TypeOf(ctl.expr.arg) = "var") =>
        LET name == ctl.expr.name
            arg == ctl.expr.arg
        IN  /\ ctl'.k = "ret" /\ stack' = stack
            /\ IF name \notin {"sin", "cos", "exp"}
               THEN ctl'.out = unsupported((IF op = "integrate"
                                            THEN "Unsupported function: "
                                            ELSE "Unsupported Function: ") \o name)
               ELSE /\ Succeeded(ctl'.out)
                    /\ ctl'.out.result =
                          IF op = "differentiate"
                          THEN CASE name = "sin" -> Func("cos", arg)
                                 [] name = "cos" -> Mul(IntNum(-1), Func("sin", arg))
                                 [] name = "exp" -> Func("exp", arg)
                          ELSE CASE name = "sin" -> Mul(IntNum(-1), Func("cos", arg))
                                 [] name = "cos" -> Func("sin", arg)
                                 [] name = "exp" -> Func("exp", arg)
C13_FuncRules ==
    [][C13_Step]_vars

C13_Witness ==
    /\ pc = "done" /\ op = "differentiate" /\ src = "string" /\ parsed # None
    /\ parsed.ast = Func("cos", Var("t"))
    /\ ctl.out.result = Mul(IntNum(-1), Func("sin", Var("t")))

\* C14: no tree normalize returns for a raw tree of the grammar holds a Mul
\* whose coefficient is 1, whether the 1 was given or is the product of an
\* outer coefficient and the coefficient of a nested Mul.
C14_NoUnitMul ==
    (Normalized /\ IsTree(parsed.ast)) =>
        \A n \in SubTrees(parsed.ast) : n.type = "mul" => n.const # IntNum(1)

\* C15: normalize on a Prod of the grammar whose factors normalize to Const,
\* Var, Power-of-Var or Func nodes, or to Prods (whose factors are spliced
\* in): Const 0 if a numeric factor is 0; otherwise, with c the product of
\* the numeric factors and the atomic factors being one Var (exponent sum 1)
\* or one Power of the first-seen Var (exponent sum >= 2) followed by the
\* Func factors in their order, the result is Const c for no atomic factor,
\* the factor (under Mul(c, .) iff c # 1) for one, and a Prod (under
\* Mul(c, .) iff c # 1) for two or more.  Every Prod normalize returns has
\* >= 2 factors, none of them a Const or a Prod.
C15_ProdNormalForm ==
    /\ (Normalized /\ IsTree(parsed.ast)) =>
          \A n \in SubTrees(parsed.ast) :
              n.type = "prod" =>
                  /\ Len(n.factors) >= 2
                  /\ \A i \in 1..Len(n.factors) :
                        TypeOf(n.factors[i]) \notin {"const", "prod"}
    /\ (src = "string" /\ pc # "parse" /\ raw.type = "prod") =>
          LET fs == [i \in 1..Len(raw.factors) |-> normalize(raw.factors[i])]
              RECURSIVE Splice(_)
              Splice(i) ==
                  IF i > Len(fs) THEN <<>>
                  ELSE (IF TypeOf(fs[i]) = "prod" THEN fs[i].factors ELSE <<fs[i]>>)
                       \o Splice(i + 1)
              flat == Splice(1)
              IsNum(f) == TypeOf(f) = "const"
              IsVarTerm(f) ==
                  \/ TypeOf(f) = "var"
                  \/ TypeOf(f) = "power" /\ TypeOf(f.base) = "var"
              IsFunc(f) == TypeOf(f) = "func"
              RECURSIVE Coef(_)
              Coef(i) ==
                  IF i > Len(flat) THEN IntNum(1)
                  ELSE IF IsNum(flat[i]) THEN NumMul(flat[i].value, Coef(i + 1))
                  ELSE Coef(i + 1)
              RECURSIVE ExpSum(_)
              ExpSum(i) ==
                  IF i > Len(flat) THEN 0
                  ELSE (CASE TypeOf(flat[i]) = "var" -> 1
                          [] TypeOf(flat[i]) = "power" -> flat[i].exp
                          [] OTHER -> 0) + ExpSum(i + 1)
              c == Coef(1)
              e == ExpSum(1)
              first == CHOOSE i \in 1..Len(flat) :
                          /\ IsVarTerm(flat[i])
                          /\ \A j \in 1..(i - 1) : ~IsVarTerm(flat[j])
              v == IF flat[first].type = "var" THEN flat[first] ELSE flat[first].base
              atoms == (IF e = 1 THEN <<v>>
                        ELSE IF e >= 2 THEN <<Power(v, e)>> ELSE <<>>)
                       \o SelectSeq(flat, IsFunc)
              body == IF Len(atoms) = 1 THEN atoms[1] ELSE Prod(atoms)
          IN  (\A i \in 1..Len(flat) :
                  IsNum(flat[i]) \/ IsVarTerm(flat[i]) \/ IsFunc(flat[i]))
              => /\ parsed # None
                 /\ parsed.ast =
                       IF \E i \in 1..Len(flat) :
                             IsNum(flat[i]) /\ flat[i].value = IntNum(0)
                       THEN Const(IntNum(0))
                       ELSE IF Len(atoms) = 0 THEN Const(c)
                       ELSE IF c = IntNum(1) THEN body
                       ELSE Mul(c, body)

C15_Witness ==
    /\ Normalized /\ raw.type = "prod"
    /\ raw.factors[1].type = "power" /\ raw.factors[1].base.type = "const"
    /\ raw.factors[2].type = "prod"
    /\ parsed.ast.type = "mul" /\ parsed.ast.const = IntNum(MaxNum)
    /\ parsed.ast.expr.type = "prod"
    /\ parsed.ast.expr.factors[1].type = "var"
    /\ parsed.ast.expr.factors[2].type = "func"

\* C16: normalize on a Sum of the grammar whose terms normalize to nodes:
\* the surviving terms are the normalized terms in their order, the terms
\* of a term that normalizes to a Sum spliced in at its position, every
\* Const 0 dropped; no survivor gives Const 0, one survivor gives that term,
\* more give the Sum of the survivors.  Every Sum normalize returns has >= 2
\* terms, none of them a Sum or a Const 0.
C16_SumNormalForm ==
    /\ (Normalized /\ IsTree(parsed.ast)) =>
          \A n \in SubTrees(parsed.ast) : SumOk(n)
    /\ (src = "string" /\ pc # "parse" /\ raw.type = "sum") =>
          LET ts == [i \in 1..Len(raw.terms) |-> normalize(raw.terms[i])]
              RECURSIVE Survivors(_)
              Survivors(i) ==
                  IF i > Len(ts) THEN <<>>
                  ELSE (CASE ts[i].type = "sum" -> ts[i].terms
                          [] ts[i] = Const(IntNum(0)) -> <<>>
                          [] OTHER -> <<ts[i]>>) \o Survivors(i + 1)
              kept == Survivors(1)
          IN  (\A i \in 1..Len(ts) : HasType(ts[i]))
              => /\ parsed # None
                 /\ parsed.ast =
                       IF Len(kept) = 0 THEN Const(IntNum(0))
                       ELSE IF Len(kept) = 1 THEN kept[1]
                       ELSE Sum(kept)

C16_Witness ==
    /\ Normalized /\ raw.type = "sum"
    /\ raw.terms[1].type = "sum" /\ raw.terms[1].terms[2] = Const(IntNum(1))
    /\ raw.terms[2].type = "func"
    /\ parsed.ast.type = "sum" /\ Len(parsed.ast.terms) = 3
    /\ parsed.ast.terms[2] = Const(IntNum(1))
    /\ parsed.ast.terms[3] = raw.terms[2]

\* C17: normalize on a Power(base, e) of the grammar (e >= 0) whose base
\* normalizes without raising: Const 1 for e = 0, the normalized base for
\* e = 1, Power(normalized base, e) for e >= 2.  Every Power in a tree
\* normalize returns has exponent >= 2, and Power(Func(sin, Var), 2) is
\* returned as it is.
C17_PowerNormalForm ==
    /\ (Normalized /\ IsTree(parsed.ast)) =>
          \A n \in SubTrees(parsed.ast) : PowerExpOk(n)
    /\ (src = "string" /\ pc # "parse" /\ raw.type = "power") =>
          LET b == normalize(raw.base)
              e == raw.exp
          IN  ~IsExc(b) =>
                 /\ parsed # None
                 /\ parsed.ast = CASE e = 0 -> Const(IntNum(1))
                                   [] e = 1 -> b
                                   [] e >= 2 -> Power(b, e)
    /\ (src = "string" /\ pc # "parse"
        /\ \E v \in VarNames : raw = Power(Func("sin", Var(v)), 2)) =>
          (parsed # None /\ parsed.ast = raw)

C17_Witness ==
    /\ Normalized
    /\ raw = Power(Func("sin", Var("x")), 2)
    /\ parsed.ast.type = "power" /\ parsed.ast.exp = 2
    /\ parsed.ast.base.type = "func"

\* the header a Sum rule puts in front of its steps
LinearityHeader(o) ==
    IF o = "integrate" THEN "Using Linearity of Integration:"
    ELSE "Using Linearity of Differentiation:"

\* C18: a Sum call keeps the step trace each term's call returned, whole
\* and in term order; when the call on the last of k terms has succeeded
\* the Sum call returns the k + 1 element trace made of the linearity
\* header followed by those k traces.  A leaf rule (Const, Var, Power, Func)
\* returns a flat trace of one or more strings.
C18_Step ==
    /\ (pc = "run" /\ ctl.k = "ret" /\ stack # <<>> /\ Head(stack).kind = "sum"
        /\ Succeeded(ctl.out)) =>
          LET f == Head(stack)
              traces == Append(f.all_steps, ctl.out.steps)
          IN  /\ Len(f.all_steps) = f.idx - 1
              /\ IF f.idx < Len(f.terms)
                 THEN Head(stack').all_steps = traces
                 ELSE Succeeded(ctl'.out) =>
                        /\ Len(ctl'.out.steps) = Len(f.terms) + 1
                        /\ Head(ctl'.out.steps) = LinearityHeader(op)
                        /\ Tail(ctl'.out.steps) = traces
    /\ (pc = "run" /\ ctl.k = "eval"
        /\ TypeOf(ctl.expr) \in {"const", "var", "power", "func"}
        /\ Succeeded(ctl'.out)) =>
          /\ Len(ctl'.out.steps) >= 1
          /\ \A i \in 1..Len(ctl'.out.steps) : ctl'.out.steps[i] \in STRING
C18_SumTrace ==
    [][C18_Step]_vars

C18_Witness ==
    /\ pc = "done" /\ parsed # None /\ TypeOf(parsed.ast) = "sum"
    /\ Len(parsed.ast.terms) = 3
    /\ TypeOf(parsed.ast.terms[2]) = "mul"
    /\ Succeeded(ctl.out)
    /\ Len(ctl.out.steps) = 4
    /\ ctl.out.steps[1] = LinearityHeader(op)
    /\ Len(ctl.out.steps[3]) = 2

\* C19: round trip.  The expressions are Var, Power(Var, n >= 2),
\* Func(sin | cos | exp, Var), non-zero scalar multiples of these, and Sums
\* of two or more of all these.  For every such e, integrate(e) succeeds,
\* and differentiate applied to its result tree succeeds and returns e.
C19_RoundTrip ==
    LET Atom(t) ==
            \/ TypeOf(t) = "var"
            \/ TypeOf(t) = "power" /\ TypeOf(t.base) = "var" /\ t.exp >= 2
            \/ /\ TypeOf(t) = "func" /\ t.name \in {"sin", "cos", "exp"}
               /\ TypeOf(t.arg) = "var"
        Term(t) ==
            \/ Atom(t)
            \/ TypeOf(t) = "mul" /\ t.const # IntNum(0) /\ Atom(t.expr)
        Expr(e) ==
            \/ Term(e)
            \/ /\ TypeOf(e) = "sum" /\ Len(e.terms) >= 2
               /\ \A i \in 1..Len(e.terms) : Term(e.terms[i])
    IN  /\ (pc = "done" /\ ~chained /\ op = "integrate" /\ parsed # None
            /\ Expr(parsed.ast)) => Succeeded(ctl.out)
        /\ (pc = "done" /\ chained /\ op = "differentiate" /\ Expr(given))
              => (Succeeded(ctl.out) /\ ctl.out.result = given)

\* C20 as stated: on an input satisfying the eight invariants, differentiate
\* and integrate alike fail if and only if the tree holds, at a position
\* reached through Mul and Sum nodes only, a Prod or a Power whose base is
\* not a Var.
C20_AsStated ==
    LET RECURSIVE Bad(_)
        Bad(e) ==
            CASE e.type = "prod" -> TRUE
              [] e.type = "power" -> e.base.type # "var"
              [] e.type = "mul" -> Bad(e.expr)
              [] e.type = "sum" -> \E i \in 1..Len(e.terms) : Bad(e.terms[i])
              [] OTHER -> FALSE
    IN  (pc = "done" /\ parsed # None /\ Canonical(parsed.ast))
            => (Failed(ctl.out) <=> Bad(parsed.ast))

\* C20, amended: on an input satisfying the eight invariants, the call fails
\* if and only if the tree holds a Prod or a Power whose base is not a Var at
\* a position reached through Sum nodes and through the Mul nodes the rule
\* visits: every Mul for differentiate, the Muls with a non-zero coefficient
\* for integrate (integrate of Mul(0, e) succeeds with Const 0 whatever e
\* is).  On every other such input the call succeeds.
C20_FailureIff ==
    LET RECURSIVE Bad(_)
        Bad(e) ==
            CASE e.type = "prod" -> TRUE
              [] e.type = "power" -> e.base.type # "var"
              [] e.type = "mul" ->
                    ~(op = "integrate" /\ e.const = IntNum(0)) /\ Bad(e.expr)
              [] e.type = "sum" -> \E i \in 1..Len(e.terms) : Bad(e.terms[i])
              [] OTHER -> FALSE
    IN  (pc = "done" /\ parsed # None /\ Canonical(parsed.ast))
            => (Failed(ctl.out) <=> Bad(parsed.ast))

C20_Witness ==
    /\ pc = "done" /\ parsed # None /\ Canonical(parsed.ast)
    /\ op = "differentiate"
    /\ IsZeroMul(parsed.ast) /\ TypeOf(parsed.ast.expr) = "prod"
    /\ Failed(ctl.out)

\* C21: single variable symbol.  On an input satisfying the eight invariants
\* that holds a Var and whose Var nodes all carry the symbol v, every Var
\* node of the result tree of a successful integrate or differentiate call
\* carries v.
C21_SingleSymbol ==
    LET Symbols(e) == {n.variable : n \in {m \in SubTrees(e) : TypeOf(m) = "var"}}
    IN  (pc = "done" /\ parsed # None /\ Canonical(parsed.ast)
         /\ Succeeded(ctl.out) /\ Symbols(parsed.ast) # {})
            => \A v \in VarNames :
                  Symbols(parsed.ast) = {v} => Symbols(ctl.out.result) \subseteq {v}

====
